---- MODULE Spec2Model ----
(***************************************************************************)
(* Model of the Viewer3d class (src/src/viewer3d/index.ts): the meshes of  *)
(* a scene, the lines that connect them, and the bookkeeping that keeps    *)
(* mesh.metadata.lines, line.metadata.from / to and                        *)
(* line.metadata.option.points consistent under move, connect, disconnect  *)
(* and remove.                                                             *)
(*                                                                         *)
(* A Vector3 is a mutable object.  The only Vector3 objects the class      *)
(* touches are the position object of each mesh (mutated in place by       *)
(* addInPlace) and the clones disconnectLine makes, each held by exactly   *)
(* one slot of one points array.  A slot of a points array is therefore    *)
(* either an alias of one mesh's position object or a private value.       *)
(***************************************************************************)
EXTENDS Integers, Sequences, FiniteSets, TLC

\* ---------------------------------------------------------------- bounds
MaxMeshes == 3
MaxLines == 2
MaxCalls == 5
MaxCoord == 3
Precision == 2

MeshIds == 1..MaxMeshes
LineIds == 1..MaxLines
Coords == (0 - MaxCoord)..MaxCoord

\* ------------------------------------------------------------- numbers
\* A JavaScript number is a binary floating-point value: the result of +
\* and - is the exact result rounded to the nearest value whose significand
\* fits, ties to even.  Numbers are modelled as integers whose significand
\* has Precision bits (53 in JavaScript), so that inexact results occur
\* among small values.
RECURSIVE Pow2(_)
Pow2(n) == IF n = 0 THEN 1 ELSE 2 * Pow2(n - 1)

\* the spacing of representable values at magnitude n >= 0
RECURSIVE Ulp(_, _)
Ulp(n, u) == IF n < Pow2(Precision) * u THEN u ELSE Ulp(n, 2 * u)

RoundAbs(n) ==
    LET u == Ulp(n, 1)
        q == n \div u
        r == n % u
    IN  IF 2 * r < u THEN q * u
        ELSE IF 2 * r > u THEN (q + 1) * u
        ELSE IF q % 2 = 0 THEN q * u ELSE (q + 1) * u

Round(n) == IF n >= 0 THEN RoundAbs(n) ELSE 0 - RoundAbs(0 - n)

Plus(a, b) == Round(a + b)
Minus(a, b) == Round(a - b)

\* the number literals a caller passes
CoordInputs == {n \in {0 - (MaxCoord - 1), MaxCoord} : Round(n) = n}

\* null, for line.metadata.from / to and for a slot that aliases no mesh
Null == 0

\* ------------------------------------------------------------- Vector3
Vector3 == [x : Coords, y : Coords, z : Coords]

Zero == [x |-> 0, y |-> 0, z |-> 0]

Axes == {"x", "y", "z"}

\* interface Point: each of x, y, z may be absent
PointsOver(vals) == UNION {[d -> vals] : d \in SUBSET Axes}

\* destructuring with a default:  const { x = dflt } = point
Field(point, axis, dflt) == IF axis \in DOMAIN point THEN point[axis] ELSE dflt

\* the points a caller passes: no component, or one component
PointInputs ==
    {p \in PointsOver(CoordInputs) : Cardinality(DOMAIN p) <= 1}

\* the positions the model lets a mesh reach
InRange(v) == v \in Vector3

\* ---------------------------------------------------------------- state
VARIABLES
    calls,          \* calls made so far
    meshCount,      \* meshes created so far; their names are 1..meshCount
    lineCount,      \* lines created so far; their names are 1..lineCount
    position,       \* value held by the position object of each mesh
    lines,          \* mesh.metadata.lines, an array of lines
    from,           \* line.metadata.from
    to,             \* line.metadata.to
    points,         \* line.metadata.option.points, two slots
    drawn,          \* vertex data last committed by MeshBuilder.CreateLines
    sceneMeshes,    \* meshes in the scene (created and not disposed)
    sceneLines,     \* lines in the scene (created and not disposed)
    last,           \* the call that produced this state, and its outcome
    resizeListener, \* whether onResize is registered on the window
    idCount,        \* ids handed out to imported objects so far
    imports,        \* the calls of importMesh and what they returned
    parent,         \* mesh.parent of the nodes root is asked about
    rootCall        \* the last call of root and its outcome

sceneVars == <<calls, meshCount, lineCount, position, lines, from, to, points,
               drawn, sceneMeshes, sceneLines, last>>
importVars == <<resizeListener, idCount, imports>>
rootVars == <<parent, rootCall>>

vars == <<sceneVars, importVars, rootVars>>

\* the mutable store the methods read and write, as one value
Store ==
    [position |-> position, lines |-> lines, from |-> from, to |-> to,
     points |-> points, drawn |-> drawn, sceneMeshes |-> sceneMeshes,
     sceneLines |-> sceneLines, updated |-> <<>>, err |-> FALSE]

\* a slot of a points array
Alias(mesh) == [mesh |-> mesh, v |-> Zero]
Own(v) == [mesh |-> Null, v |-> v]

\* the coordinates a slot shows now
Value(s, slot) == IF slot.mesh # Null THEN s.position[slot.mesh] ELSE slot.v

\* Vector3.clone(): a new object with the same coordinates
clone(s, slot) == Own(Value(s, slot))

PointValues(s, line) == <<Value(s, s.points[line][1]), Value(s, s.points[line][2])>>

\* ------------------------------------------------------ array helpers
\* Array.prototype.findIndex(l => l.name === line.name), 1-based; 0 when absent
RECURSIVE findIndexFrom(_, _, _)
findIndexFrom(arr, line, i) ==
    IF i > Len(arr) THEN 0
    ELSE IF arr[i] = line THEN i
    ELSE findIndexFrom(arr, line, i + 1)

findIndex(arr, line) == findIndexFrom(arr, line, 1)

\* Array.prototype.splice(index, 1)
splice(arr, index) ==
    [i \in 1..(Len(arr) - 1) |-> IF i < index THEN arr[i] ELSE arr[i + 1]]

\* ------------------------------------------------------------ methods
\* updateLine: CreateLines with option.instance set rewrites the vertex data
\* of the existing drawable from option.points; a disposed line has none.
updateLine(s, line) ==
    [s EXCEPT !.drawn[line] = IF line \in s.sceneLines
                              THEN PointValues(s, line) ELSE @,
              !.updated = Append(@, line)]

\* updateLinesOnMesh: lines.forEach(updateLine)
RECURSIVE updateEach(_, _, _)
updateEach(s, arr, i) ==
    IF i > Len(arr) THEN s ELSE updateEach(updateLine(s, arr[i]), arr, i + 1)

updateLinesOnMesh(s, mesh) == updateEach(s, s.lines[mesh], 1)

\* move: position.addInPlace(diff), then resync the lines of the mesh
moveDiff(diff) ==
    [x |-> Field(diff, "x", 0), y |-> Field(diff, "y", 0), z |-> Field(diff, "z", 0)]

addInPlace(v, d) == [x |-> Plus(v.x, d.x), y |-> Plus(v.y, d.y), z |-> Plus(v.z, d.z)]

move(s, mesh, diff) ==
    LET s1 == [s EXCEPT !.position[mesh] = addInPlace(@, moveDiff(diff))]
    IN  IF Len(s1.lines[mesh]) > 0 THEN updateLinesOnMesh(s1, mesh) ELSE s1

\* moveTo: absent components default to the current coordinate
moveTo(s, mesh, point) ==
    LET p == s.position[mesh]
        x == Field(point, "x", p.x)
        y == Field(point, "y", p.y)
        z == Field(point, "z", p.z)
        diff == [a \in Axes |-> IF a = "x" THEN Minus(x, p.x)
                                ELSE IF a = "y" THEN Minus(y, p.y)
                                ELSE Minus(z, p.z)]
    IN  move(s, mesh, diff)

\* addLine as it would be if it pushed the line on mesh1's list only
addLineOneList(s, line, mesh1, mesh2) ==
    LET s1 == [s EXCEPT !.points[line] = <<Alias(mesh1), Alias(mesh2)>>,
                        !.sceneLines = @ \cup {line},
                        !.from[line] = mesh1,
                        !.to[line] = mesh2]
        s2 == [s1 EXCEPT !.drawn[line] = PointValues(s1, line)]
    IN  [s2 EXCEPT !.lines[mesh1] = Append(@, line)]

\* addLine: both slots alias the position objects; the line is pushed on
\* both meshes' lists
addLine(s, line, mesh1, mesh2) ==
    LET s1 == [s EXCEPT !.points[line] = <<Alias(mesh1), Alias(mesh2)>>,
                        !.sceneLines = @ \cup {line},
                        !.from[line] = mesh1,
                        !.to[line] = mesh2]
        s2 == [s1 EXCEPT !.drawn[line] = PointValues(s1, line)]
        s3 == [s2 EXCEPT !.lines[mesh1] = Append(@, line)]
    IN  [s3 EXCEPT !.lines[mesh2] = Append(@, line)]

\* connectLine as it would be without the writes to option.points
connectLineStalePoint(s, mesh, line, type) ==
    LET s1 == IF type = "from" THEN [s EXCEPT !.from[line] = mesh] ELSE s
        s2 == IF type = "to" THEN [s1 EXCEPT !.to[line] = mesh] ELSE s1
        s3 == IF findIndex(s2.lines[mesh], line) = 0
              THEN [s2 EXCEPT !.lines[mesh] = Append(@, line)]
              ELSE s2
    IN  updateLine(s3, line)

\* connectLine
connectLine(s, mesh, line, type) ==
    LET s1 == IF type = "from"
              THEN [s EXCEPT !.from[line] = mesh, !.points[line][1] = Alias(mesh)]
              ELSE s
        s2 == IF type = "to"
              THEN [s1 EXCEPT !.to[line] = mesh, !.points[line][2] = Alias(mesh)]
              ELSE s1
        s3 == IF findIndex(s2.lines[mesh], line) = 0
              THEN [s2 EXCEPT !.lines[mesh] = Append(@, line)]
              ELSE s2
    IN  updateLine(s3, line)

\* disconnectLine as it would be without the clone() of the unbound slot
disconnectLineNoClone(s, mesh, line) ==
    IF mesh = Null THEN [s EXCEPT !.err = TRUE]
    ELSE
    LET f == s.from[line]
        t == s.to[line]
        s1 == IF f # Null /\ f = mesh THEN [s EXCEPT !.from[line] = Null] ELSE s
        s2 == IF t # Null /\ t = mesh THEN [s1 EXCEPT !.to[line] = Null] ELSE s1
        index == findIndex(s2.lines[mesh], line)
        s3 == IF index > 0
              THEN [s2 EXCEPT !.lines[mesh] = splice(@, index)]
              ELSE s2
    IN  updateLine(s3, line)

\* disconnectLine; reading mesh.metadata of null throws a TypeError before
\* anything is written
disconnectLine(s, mesh, line) ==
    IF mesh = Null THEN [s EXCEPT !.err = TRUE]
    ELSE
    LET f == s.from[line]
        t == s.to[line]
        s1 == IF f # Null /\ f = mesh
              THEN [s EXCEPT !.from[line] = Null,
                             !.points[line][1] = clone(s, s.points[line][1])]
              ELSE s
        s2 == IF t # Null /\ t = mesh
              THEN [s1 EXCEPT !.to[line] = Null,
                              !.points[line][2] = clone(s1, s1.points[line][2])]
              ELSE s1
        index == findIndex(s2.lines[mesh], line)
        s3 == IF index > 0
              THEN [s2 EXCEPT !.lines[mesh] = splice(@, index)]
              ELSE s2
    IN  updateLine(s3, line)

\* disconnectLinesOnMesh: [...lines].forEach(disconnectLine(mesh, line))
RECURSIVE disconnectEach(_, _, _, _)
disconnectEach(s, mesh, snapshot, i) ==
    IF i > Len(snapshot) \/ s.err THEN s
    ELSE disconnectEach(disconnectLine(s, mesh, snapshot[i]), mesh, snapshot, i + 1)

\* disconnectLinesOnMesh as it would be if forEach ran over lines itself
\* instead of the copy [...lines]
RECURSIVE disconnectEachLive(_, _, _)
disconnectEachLive(s, mesh, i) ==
    IF i > Len(s.lines[mesh]) \/ s.err THEN s
    ELSE disconnectEachLive(disconnectLine(s, mesh, s.lines[mesh][i]), mesh, i + 1)

disconnectLinesOnMeshLive(s, mesh) == disconnectEachLive(s, mesh, 1)

disconnectLinesOnMesh(s, mesh) == disconnectEach(s, mesh, s.lines[mesh], 1)

\* removeLine: from and to are read once, before the first disconnectLine,
\* and both branches pass from.  dispose() takes the line out of the scene;
\* the object, its metadata and its points stay with whoever holds them.
removeLine(s, line) ==
    LET f == s.from[line]
        t == s.to[line]
        s1 == IF f # Null THEN disconnectLine(s, f, line) ELSE s
        s2 == IF s1.err THEN s1
              ELSE IF t # Null THEN disconnectLine(s1, f, line) ELSE s1
    IN  IF s2.err THEN s2 ELSE [s2 EXCEPT !.sceneLines = @ \ {line}]

\* removeLinesOnMesh: [...lines].forEach(removeLine); a throw ends the loop
RECURSIVE removeEach(_, _, _)
removeEach(s, snapshot, i) ==
    IF i > Len(snapshot) \/ s.err THEN s
    ELSE removeEach(removeLine(s, snapshot[i]), snapshot, i + 1)

removeLinesOnMesh(s, mesh) == removeEach(s, s.lines[mesh], 1)

\* removeMesh as it would be if it removed the lines instead of detaching them
removeMeshRemovingLines(s, mesh) ==
    LET s1 == removeLinesOnMesh(s, mesh)
    IN  IF s1.err THEN s1 ELSE [s1 EXCEPT !.sceneMeshes = @ \ {mesh}]

\* removeMesh: detach the lines, then dispose the mesh
removeMesh(s, mesh) ==
    LET s1 == disconnectLinesOnMesh(s, mesh)
    IN  IF s1.err THEN s1 ELSE [s1 EXCEPT !.sceneMeshes = @ \ {mesh}]

\* ------------------------------------------------------------- actions
\* what a call leaves in the variables
Commit(s, call) ==
    /\ calls < MaxCalls
    /\ calls' = calls + 1
    /\ position' = s.position
    /\ lines' = s.lines
    /\ from' = s.from
    /\ to' = s.to
    /\ points' = s.points
    /\ drawn' = s.drawn
    /\ sceneMeshes' = s.sceneMeshes
    /\ sceneLines' = s.sceneLines
    /\ last' = [call EXCEPT !.err = s.err, !.updated = s.updated]
    /\ UNCHANGED <<importVars, rootVars>>

\* mesh2 is the second mesh of addLine; type is the type of addMesh (stored
\* as metadata.type and never read back by the class) or of connectLine
Call(op, mesh, line, mesh2, type) ==
    [op |-> op, mesh |-> mesh, line |-> line, mesh2 |-> mesh2, type |-> type,
     err |-> FALSE, updated |-> <<>>]

Created == 1..meshCount
CreatedLines == 1..lineCount

MeshTypes == {"box", "sphere", "cone"}

\* addMesh as it would be without the switch on type
AddMeshAnyType(type) ==
    /\ meshCount < MaxMeshes
    /\ meshCount' = meshCount + 1
    /\ Commit([Store EXCEPT !.sceneMeshes = @ \cup {meshCount + 1},
                            !.position[meshCount + 1] = Zero,
                            !.lines[meshCount + 1] = <<>>],
              Call("addMesh", meshCount + 1, Null, Null, type))
    /\ UNCHANGED lineCount

\* addMesh: a box or a sphere at the origin with an empty list; any other
\* type returns null and creates nothing
AddMesh(type) ==
    IF type \in {"box", "sphere"}
    THEN /\ meshCount < MaxMeshes
         /\ meshCount' = meshCount + 1
         /\ Commit([Store EXCEPT !.sceneMeshes = @ \cup {meshCount + 1},
                                 !.position[meshCount + 1] = Zero,
                                 !.lines[meshCount + 1] = <<>>],
                   Call("addMesh", meshCount + 1, Null, Null, type))
         /\ UNCHANGED lineCount
    ELSE /\ Commit(Store, Call("addMesh", Null, Null, Null, type))
         /\ UNCHANGED <<meshCount, lineCount>>

AddLine(mesh1, mesh2) ==
    /\ lineCount < MaxLines
    /\ lineCount' = lineCount + 1
    /\ Commit(addLine(Store, lineCount + 1, mesh1, mesh2),
              Call("addLine", mesh1, lineCount + 1, mesh2, ""))
    /\ UNCHANGED meshCount

ConnectLine(mesh, line, type) ==
    /\ Commit(connectLine(Store, mesh, line, type),
              Call("connectLine", mesh, line, Null, type))
    /\ UNCHANGED <<meshCount, lineCount>>

DisconnectLine(mesh, line) ==
    /\ Commit(disconnectLine(Store, mesh, line),
              Call("disconnectLine", mesh, line, Null, ""))
    /\ UNCHANGED <<meshCount, lineCount>>

DisconnectLinesOnMesh(mesh) ==
    /\ Commit(disconnectLinesOnMesh(Store, mesh),
              Call("disconnectLinesOnMesh", mesh, Null, Null, ""))
    /\ UNCHANGED <<meshCount, lineCount>>

RemoveLine(line) ==
    /\ Commit(removeLine(Store, line), Call("removeLine", Null, line, Null, ""))
    /\ UNCHANGED <<meshCount, lineCount>>

RemoveLinesOnMesh(mesh) ==
    /\ Commit(removeLinesOnMesh(Store, mesh),
              Call("removeLinesOnMesh", mesh, Null, Null, ""))
    /\ UNCHANGED <<meshCount, lineCount>>

RemoveMesh(mesh) ==
    /\ Commit(removeMesh(Store, mesh), Call("removeMesh", mesh, Null, Null, ""))
    /\ UNCHANGED <<meshCount, lineCount>>

Move(mesh, diff) ==
    /\ InRange(move(Store, mesh, diff).position[mesh])
    /\ Commit(move(Store, mesh, diff), Call("move", mesh, Null, Null, ""))
    /\ UNCHANGED <<meshCount, lineCount>>

MoveTo(mesh, point) ==
    /\ InRange(moveTo(Store, mesh, point).position[mesh])
    /\ Commit(moveTo(Store, mesh, point), Call("moveTo", mesh, Null, Null, ""))
    /\ UNCHANGED <<meshCount, lineCount>>

\* ------------------------------------------------------------ importMesh
MaxImports == 2
Imports == 1..MaxImports

\* Tools.RandomId is taken to return no value twice: the names of meshes, of
\* lines and of imported objects come from ranges that do not meet
NameOfMesh(mesh) == mesh
NameOfLine(line) == MaxMeshes + line
IdBase == MaxMeshes + MaxLines
RandomId(count) == IdBase + count + 1

\* what a file holds: meshes and transform nodes with the names written in
\* the file, geometries with the ids written in the file, and for each mesh
\* the index of its parent among the meshes; the names written in a file are
\* whatever its author chose, here names that meshes of the scene also have
Asset(parents) ==
    [meshes |-> <<1, 2>>, parents |-> parents,
     transformNodes |-> <<3>>, geometries |-> <<1>>]

Assets == {Asset(<<2, Null>>), Asset(<<Null, 1>>)}

NoAsset ==
    [meshes |-> <<>>, parents |-> <<>>, transformNodes |-> <<>>,
     geometries |-> <<>>]

NoMetadata == [type |-> "", lines |-> <<>>]

\* a call of importMesh that has not been made
NoImport ==
    [pc |-> "idle", asset |-> NoAsset, meshes |-> <<>>, transformNodes |-> <<>>,
     geometries |-> <<>>, rootMesh |-> Null, metadata |-> NoMetadata]

\* arr.forEach(x => x.name = Tools.RandomId()) after count ids were drawn
renameEach(arr, count) == [i \in DOMAIN arr |-> RandomId(count + i - 1)]

\* meshes.find(mesh => !mesh.parent), as an index
findParentless(parents) ==
    LET found == {i \in DOMAIN parents : parents[i] = Null}
    IN  IF found = {} THEN Null
        ELSE CHOOSE i \in found : \A j \in found : i <= j

\* the part of importMesh after the await, without the renaming of the
\* transform nodes
importMeshLoadedMeshesOnly(imp, count) ==
    LET meshes == renameEach(imp.asset.meshes, count)
        geometries == renameEach(imp.asset.geometries,
                                 count + Len(meshes) + Len(imp.asset.transformNodes))
    IN  [imp EXCEPT !.pc = "done",
                    !.meshes = meshes,
                    !.transformNodes = imp.asset.transformNodes,
                    !.geometries = geometries,
                    !.rootMesh = findParentless(imp.asset.parents),
                    !.metadata = [type |-> "import", lines |-> <<>>]]

\* the part of importMesh after the await: the loader's objects arrive with
\* the names of the file, then every mesh, transform node and geometry gets
\* a new one and the first parentless mesh gets its metadata; nothing
\* reads whether destroy was called
importMeshLoaded(imp, count) ==
    LET meshes == renameEach(imp.asset.meshes, count)
        transformNodes == renameEach(imp.asset.transformNodes, count + Len(meshes))
        geometries == renameEach(imp.asset.geometries,
                                 count + Len(meshes) + Len(transformNodes))
    IN  [imp EXCEPT !.pc = "done",
                    !.meshes = meshes,
                    !.transformNodes = transformNodes,
                    !.geometries = geometries,
                    !.rootMesh = findParentless(imp.asset.parents),
                    !.metadata = [type |-> "import", lines |-> <<>>]]

\* importMesh up to the await: the loader is started on the file
ImportMesh(k, asset) ==
    /\ imports[k].pc = "idle"
    /\ \A j \in Imports : j < k => imports[j].pc # "idle"
    /\ imports' = [imports EXCEPT ![k] = [@ EXCEPT !.pc = "loading",
                                                   !.asset = asset]]
    /\ UNCHANGED <<sceneVars, resizeListener, idCount, rootVars>>

\* the loader's promise resolves and importMesh runs to its return
ImportLoaded(k) ==
    /\ imports[k].pc = "loading"
    /\ imports' = [imports EXCEPT
                       ![k] = importMeshLoaded(imports[k], idCount)]
    /\ idCount' = idCount + Len(imports[k].asset.meshes)
                          + Len(imports[k].asset.transformNodes)
                          + Len(imports[k].asset.geometries)
    /\ UNCHANGED <<sceneVars, resizeListener, rootVars>>

\* destroy: removes the resize listener and nothing else
Destroy ==
    /\ resizeListener' = FALSE
    /\ UNCHANGED <<sceneVars, idCount, imports, rootVars>>

\* ------------------------------------------------------------------ root
MaxNodes == 3
Nodes == 1..MaxNodes

\* frames the call stack holds; more than any chain without a cycle needs
MaxStack == MaxNodes + 2

NoRootCall == [mesh |-> Null, result |-> Null, err |-> ""]

\* root without the recursion: the parent, or the mesh when it has none
rootOneStep(parents, mesh, frames) ==
    IF parents[mesh] # Null
    THEN [mesh |-> parents[mesh], err |-> ""]
    ELSE [mesh |-> mesh, err |-> ""]

\* root: recurses on mesh.parent; the recursion ends when the stack is full
RECURSIVE root(_, _, _)
root(parents, mesh, frames) ==
    IF parents[mesh] # Null
    THEN IF frames = 0
         THEN [mesh |-> Null, err |-> "RangeError"]
         ELSE root(parents, parents[mesh], frames - 1)
    ELSE [mesh |-> mesh, err |-> ""]

\* what a caller sees of a recursion without end: an engine with a bounded
\* stack throws RangeError, one that reuses the frame of a call in tail
\* position never returns
Outcomes(err) == IF err = "RangeError" THEN {"RangeError", "NoReturn"} ELSE {err}

Root(mesh) ==
    /\ LET r == root(parent, mesh, MaxStack)
       IN  rootCall' \in {[mesh |-> mesh, result |-> r.mesh, err |-> e] :
                              e \in Outcomes(r.err)}
    /\ UNCHANGED <<sceneVars, importVars, parent>>

\* --------------------------------------------------------- specifications
InitImport ==
    /\ resizeListener = TRUE
    /\ idCount = 0
    /\ imports = [k \in Imports |-> NoImport]

InitScene ==
    /\ calls = 0
    /\ meshCount = 0
    /\ lineCount = 0
    /\ position = [m \in MeshIds |-> Zero]
    /\ lines = [m \in MeshIds |-> <<>>]
    /\ from = [l \in LineIds |-> Null]
    /\ to = [l \in LineIds |-> Null]
    /\ points = [l \in LineIds |-> <<Own(Zero), Own(Zero)>>]
    /\ drawn = [l \in LineIds |-> <<Zero, Zero>>]
    /\ sceneMeshes = {}
    /\ sceneLines = {}
    /\ last = Call("constructor", Null, Null, Null, "")

\* after the constructor: an empty scene, the resize listener registered
Init ==
    /\ InitScene
    /\ InitImport
    /\ parent = [n \in Nodes |-> Null]
    /\ rootCall = NoRootCall

\* The methods test neither whether a mesh or line is still in the scene nor
\* who holds it, so a call may name any mesh or line created so far.
Next ==
    \/ \E type \in MeshTypes : AddMesh(type)
    \/ \E mesh1 \in Created, mesh2 \in Created : AddLine(mesh1, mesh2)
    \/ \E mesh \in Created, line \in CreatedLines, type \in {"from", "to"} :
          ConnectLine(mesh, line, type)
    \/ \E mesh \in Created, line \in CreatedLines : DisconnectLine(mesh, line)
    \/ \E mesh \in Created : DisconnectLinesOnMesh(mesh)
    \/ \E line \in CreatedLines : RemoveLine(line)
    \/ \E mesh \in Created : RemoveLinesOnMesh(mesh)
    \/ \E mesh \in Created : RemoveMesh(mesh)
    \/ \E mesh \in Created, diff \in PointInputs : Move(mesh, diff)
    \/ \E mesh \in Created, point \in PointInputs : MoveTo(mesh, point)

Spec == Init /\ [][Next]_vars

\* importMesh and destroy among calls that create meshes and lines; the
\* loader may resolve at any time after it was started
NextImport ==
    \/ \E type \in MeshTypes : AddMesh(type)
    \/ \E mesh1 \in Created, mesh2 \in Created : AddLine(mesh1, mesh2)
    \/ \E k \in Imports, asset \in Assets : ImportMesh(k, asset)
    \/ \E k \in Imports : ImportLoaded(k)
    \/ Destroy

SpecImport == Init /\ [][NextImport]_vars

\* root asked about the nodes of any parent relation, with or without cycles
InitRoot ==
    /\ InitScene
    /\ InitImport
    /\ parent \in [Nodes -> Nodes \cup {Null}]
    /\ rootCall = NoRootCall

NextRoot == \E mesh \in Nodes : Root(mesh)

SpecRoot == InitRoot /\ [][NextRoot]_vars

\* ------------------------------------------------------ claim helpers
Range(arr) == {arr[i] : i \in DOMAIN arr}

Listed(s, mesh, line) == line \in Range(s.lines[mesh])

Occurrences(arr, line) == Cardinality({i \in DOMAIN arr : arr[i] = line})

\* C1: in every reachable state, for every mesh P and line C, C is in
\* P.metadata.lines if and only if C.from is P or C.to is P.
C1_ConnectorSetConsistency ==
    \A P \in Created, C \in CreatedLines :
        Listed(Store, P, C) <=> (from[C] = P \/ to[C] = P)

\* C2: after every call, each bound endpoint's slot of points shows the
\* current position of the mesh it is bound to.
C2_PointEndpointSync ==
    \A C \in CreatedLines :
        /\ from[C] # Null => Value(Store, points[C][1]) = position[from[C]]
        /\ to[C] # Null => Value(Store, points[C][2]) = position[to[C]]

\* a mesh that has moved away from the origin, with a line bound to it at
\* one end and to a mesh at another place at the other end
C2_Witness ==
    /\ last.op \in {"move", "moveTo"}
    /\ position[last.mesh] # Zero
    /\ \E C \in sceneLines :
          /\ from[C] = last.mesh
          /\ to[C] # Null
          /\ position[to[C]] # position[last.mesh]
          /\ last.updated = <<C>>

\* C3: removeLine(C) on a live line, whatever its bindings, raises no error
\* and leaves C unbound at both ends, out of the scene, and in no mesh's list.
C3_RemoveLineLeavesNothingDangling ==
    last.op = "removeLine" =>
        /\ ~last.err
        /\ from[last.line] = Null
        /\ to[last.line] = Null
        /\ last.line \notin sceneLines
        /\ \A P \in Created : ~Listed(Store, P, last.line)

\* C4: addLine(P, P) yields a line with from = to = P that occurs exactly
\* once in P.metadata.lines.
C4_SelfLoopListedOnce ==
    (last.op = "addLine" /\ last.mesh = last.mesh2) =>
        /\ from[last.line] = last.mesh
        /\ to[last.line] = last.mesh
        /\ Occurrences(lines[last.mesh], last.line) = 1

\* C5: in every reachable state, disconnectLine(P, C) twice leaves the same
\* bindings, points and lists as disconnectLine(P, C) once.
C5_DisconnectIdempotent ==
    \A P \in Created, C \in CreatedLines :
        LET once == disconnectLine(Store, P, C)
            twice == disconnectLine(once, P, C)
        IN  /\ twice.from = once.from
            /\ twice.to = once.to
            /\ twice.points = once.points
            /\ twice.lines = once.lines

\* C6: removeMesh(P), where live lines C1 (from P to Q) and C2 (from R to P)
\* join P to live meshes Q and R other than P, keeps both lines in the scene,
\* leaves no end of either bound to P, keeps C1.to = Q and C2.from = R, and
\* keeps C1 in Q's list and C2 in R's list.
C6_CascadeRemoval ==
    \A P \in sceneMeshes, Q \in sceneMeshes, R \in sceneMeshes :
      \A c1 \in sceneLines, c2 \in sceneLines :
        (/\ Q # P /\ R # P /\ c1 # c2
         /\ from[c1] = P /\ to[c1] = Q
         /\ from[c2] = R /\ to[c2] = P)
        => LET s == removeMesh(Store, P)
           IN  /\ ~s.err
               /\ P \notin s.sceneMeshes
               /\ {c1, c2} \subseteq s.sceneLines
               /\ \A c \in {c1, c2} : s.from[c] # P /\ s.to[c] # P
               /\ s.to[c1] = Q
               /\ s.from[c2] = R
               /\ Listed(s, Q, c1)
               /\ Listed(s, R, c2)

\* removeMesh has just detached two live lines, one by its from end and one
\* by its to end, whose other ends are still bound to live meshes
C6_Witness ==
    /\ last.op = "removeMesh"
    /\ ~last.err
    /\ last.mesh \notin sceneMeshes
    /\ \E c1 \in sceneLines, c2 \in sceneLines :
          /\ c1 # c2
          /\ Range(last.updated) = {c1, c2}
          /\ from[c1] = Null /\ to[c1] \in sceneMeshes
          /\ to[c2] = Null /\ from[c2] \in sceneMeshes
          /\ Listed(Store, to[c1], c1)
          /\ Listed(Store, from[c2], c2)

\* C7: removeLinesOnMesh(P) empties P's list, and every line that was in it
\* ends disposed, unbound at both ends and in no mesh's list.
C7_RemoveLinesOnMeshRemovesAll ==
    \A P \in sceneMeshes :
        (\A c \in Range(lines[P]) : c \in sceneLines)
        => LET s == removeLinesOnMesh(Store, P)
           IN  /\ ~s.err
               /\ s.lines[P] = <<>>
               /\ \A c \in Range(lines[P]) :
                     /\ c \notin s.sceneLines
                     /\ s.from[c] = Null
                     /\ s.to[c] = Null
                     /\ \A m \in Created : ~Listed(s, m, c)

\* C8: connectLine(Q, C, type) on an end bound to another mesh P binds the
\* end to Q, lists C on Q, and takes C off P's list unless P is still bound
\* at the other end, in which case C stays on P's list.
C8_Rebinding ==
    \A Q \in Created, C \in CreatedLines, type \in {"from", "to"} :
        LET P == IF type = "from" THEN from[C] ELSE to[C]
            s == connectLine(Store, Q, C, type)
            end == IF type = "from" THEN s.from[C] ELSE s.to[C]
            other == IF type = "from" THEN s.to[C] ELSE s.from[C]
        IN  (P # Null /\ P # Q /\ Listed(Store, P, C)) =>
                /\ end = Q
                /\ Listed(s, Q, C)
                /\ Listed(s, P, C) <=> (other = P)

\* C9: moveTo(P, point), absent components defaulting to P's coordinates,
\* leaves P.position equal to the resolved target and every slot bound to P
\* equal to it, and changes no slot that is free or bound to another mesh.
C9_MoveToReachesTarget ==
    \A P \in Created, point \in PointInputs :
        LET p == position[P]
            target == [x |-> Field(point, "x", p.x),
                       y |-> Field(point, "y", p.y),
                       z |-> Field(point, "z", p.z)]
            s == moveTo(Store, P, point)
        IN  /\ s.position[P] = target
            /\ \A C \in CreatedLines :
                  /\ Value(s, s.points[C][1]) =
                        IF from[C] = P THEN target ELSE Value(Store, points[C][1])
                  /\ Value(s, s.points[C][2]) =
                        IF to[C] = P THEN target ELSE Value(Store, points[C][2])

\* C10: a step of disconnectLine or removeMesh that unbinds an end of a line
\* from P leaves that end's slot at P's position, and from then on no step
\* changes the slot of an end that is unbound before and after the step (so
\* no move or moveTo of any mesh changes it until connectLine binds it again).
C10_Step ==
    \A C \in CreatedLines :
        /\ (last'.op \in {"disconnectLine", "removeMesh"}
            /\ from[C] = last'.mesh /\ from'[C] = Null)
           => /\ points'[C][1].mesh = Null
              /\ Value(Store', points'[C][1]) = position[last'.mesh]
        /\ (last'.op \in {"disconnectLine", "removeMesh"}
            /\ to[C] = last'.mesh /\ to'[C] = Null)
           => /\ points'[C][2].mesh = Null
              /\ Value(Store', points'[C][2]) = position[last'.mesh]
        /\ (from[C] = Null /\ from'[C] = Null)
           => Value(Store', points'[C][1]) = Value(Store, points[C][1])
        /\ (to[C] = Null /\ to'[C] = Null)
           => Value(Store', points'[C][2]) = Value(Store, points[C][2])

C10_FreezeOnUnbind == [][C10_Step]_vars

\* two meshes and one line; the line's from end was unbound from mesh 1 while
\* mesh 1 was at the origin, its to end is still bound to mesh 2, and mesh 1
\* has then moved away: the from slot still shows the origin
C10_Witness ==
    /\ calls = 5 /\ meshCount = 2 /\ lineCount = 1
    /\ last.op \in {"move", "moveTo"}
    /\ last.mesh = 1
    /\ position[1] # Zero
    /\ from[1] = Null
    /\ to[1] = 2
    /\ points[1][1] = Own(Zero)

\* C11: in every reachable state, if neither C.from nor C.to is P, then
\* disconnectLine(P, C) raises no error and leaves every binding, every
\* point and every mesh's list, P's included, as it was.
C11_DisconnectUnboundIsNoOp ==
    \A P \in Created, C \in CreatedLines :
        (from[C] # P /\ to[C] # P)
        => LET s == disconnectLine(Store, P, C)
           IN  /\ ~s.err
               /\ s.from = from
               /\ s.to = to
               /\ s.points = points
               /\ s.lines = lines

\* C12: in every reachable state disconnectLinesOnMesh(P) ends with P's list
\* empty and no end of any line bound to P, disposes no line and changes no
\* binding to another mesh.
C12_DisconnectAllComplete ==
    \A P \in Created :
        LET s == disconnectLinesOnMesh(Store, P)
        IN  /\ ~s.err
            /\ s.lines[P] = <<>>
            /\ s.sceneLines = sceneLines
            /\ \A C \in CreatedLines :
                  /\ s.from[C] # P
                  /\ s.to[C] # P
                  /\ from[C] # P => s.from[C] = from[C]
                  /\ to[C] # P => s.to[C] = to[C]

\* disconnectLinesOnMesh has just emptied a list that held two lines, one of
\* them still bound to another mesh
C12_Witness ==
    /\ last.op = "disconnectLinesOnMesh"
    /\ ~last.err
    /\ Cardinality(Range(last.updated)) = 2
    /\ lines[last.mesh] = <<>>
    /\ \E C \in Range(last.updated) :
          /\ C \in sceneLines
          /\ from[C] # Null \/ to[C] # Null

\* C13: removeMesh(P) on a mesh that is no longer in the scene yields an
\* error and leaves the scene as it was.
C13_RemoveRemovedMeshRejected ==
    \A P \in Created :
        P \notin sceneMeshes
        => LET s == removeMesh(Store, P)
           IN  /\ s.err
               /\ s.sceneMeshes = sceneMeshes
               /\ s.sceneLines = sceneLines

\* the calls of C19 whose arguments are all still in the scene
C19_LiveCall ==
    /\ last.op \in {"move", "moveTo", "addLine", "connectLine", "disconnectLine"}
    /\ last.mesh \in sceneMeshes
    /\ last.line # Null => last.line \in sceneLines
    /\ last.mesh2 # Null => last.mesh2 \in sceneMeshes

\* C19: the vertex data last committed for every line in the scene equals
\* its current points, and move, moveTo, addLine, connectLine and
\* disconnectLine never resync a line that has been removed.
C19_DrawnStaysCommitted ==
    /\ \A C \in sceneLines : drawn[C] = PointValues(Store, C)
    /\ C19_LiveCall => \A C \in Range(last.updated) : C \in sceneLines

\* C20: in every reachable state a line bound to P at either end is on P's
\* list; so a move of P resyncs every line bound to P, and removeMesh(P)
\* leaves no end bound to P.
C20_BoundImpliesListed ==
    /\ \A P \in Created, C \in CreatedLines :
          (from[C] = P \/ to[C] = P) => Listed(Store, P, C)
    /\ last.op \in {"move", "moveTo"} =>
          \A C \in CreatedLines :
              (from[C] = last.mesh \/ to[C] = last.mesh)
              => C \in Range(last.updated)
    /\ last.op = "removeMesh" =>
          \A C \in CreatedLines : from[C] # last.mesh /\ to[C] # last.mesh

\* a mesh with two lines bound to it has moved and both were resynced
C20_Witness ==
    /\ last.op \in {"move", "moveTo"}
    /\ \E c1 \in sceneLines, c2 \in sceneLines :
          /\ c1 # c2
          /\ from[c1] = last.mesh \/ to[c1] = last.mesh
          /\ from[c2] = last.mesh \/ to[c2] = last.mesh
          /\ {c1, c2} \subseteq Range(last.updated)

\* a step of addMesh with a supported type returns a mesh with a new name, in
\* the scene, with an empty list
C14_Created ==
    /\ ~last'.err
    /\ last'.mesh \notin Created
    /\ last'.mesh = meshCount'
    /\ sceneMeshes' = sceneMeshes \cup {last'.mesh}
    /\ lines'[last'.mesh] = <<>>

\* a step that creates nothing and changes nothing
C14_NothingChanged ==
    /\ meshCount' = meshCount
    /\ lineCount' = lineCount
    /\ Store' = Store

\* C14 as claimed: addMesh with a type other than box and sphere yields an
\* error, creates no mesh and changes no state; with a supported type it
\* returns a mesh with a new name and an empty list.
C14_Claimed_Step ==
    last'.op = "addMesh" =>
        IF last'.type \in {"box", "sphere"}
        THEN C14_Created
        ELSE last'.err /\ C14_NothingChanged

C14_Amended_Step ==
    last'.op = "addMesh" =>
        IF last'.type \in {"box", "sphere"}
        THEN C14_Created
        ELSE ~last'.err /\ last'.mesh = Null /\ C14_NothingChanged

ImportIds(imp) ==
    Range(imp.meshes) \cup Range(imp.transformNodes) \cup Range(imp.geometries)

\* the ids Tools.RandomId has handed out to imported objects
GeneratedIds == {RandomId(n) : n \in 0..(idCount - 1)}

\* the names of the meshes and lines created in the scene
SceneNames ==
    {NameOfMesh(m) : m \in Created} \cup {NameOfLine(l) : l \in CreatedLines}

\* the step in which the loader of import k resolves
C15_Completes(k) == imports[k].pc = "loading" /\ imports'[k].pc = "done"

\* C15: if destroy was called while importMesh awaits the loader, the
\* completion of the import draws no id, renames no mesh, transform node or
\* geometry and writes no metadata on a root.
C15_Step ==
    \A k \in Imports :
        (~resizeListener /\ C15_Completes(k))
        => /\ idCount' = idCount
           /\ ImportIds(imports'[k]) \cap GeneratedIds' = {}
           /\ imports'[k].metadata = NoMetadata

C15_ImportAfterDestroyIsNoOp == [][C15_Step]_vars

\* C16: with an id generator that repeats no id, every mesh, transform node
\* and geometry of a finished import carries a generated id of its own, the
\* ids of two finished imports (of the same file or not) do not meet, none
\* is the name of a mesh or line of the scene, and the parentless mesh of
\* each import has type 'import' and an empty list of lines.
C16_ImportUniqueness ==
    /\ \A k \in Imports :
          imports[k].pc = "done"
          => LET imp == imports[k]
             IN  /\ Len(imp.meshes) = Len(imp.asset.meshes)
                 /\ Len(imp.transformNodes) = Len(imp.asset.transformNodes)
                 /\ Len(imp.geometries) = Len(imp.asset.geometries)
                 /\ ImportIds(imp) \subseteq GeneratedIds
                 /\ Cardinality(ImportIds(imp))
                        = Len(imp.meshes) + Len(imp.transformNodes)
                          + Len(imp.geometries)
                 /\ ImportIds(imp) \cap SceneNames = {}
                 /\ imp.rootMesh \in DOMAIN imp.asset.parents
                 /\ imp.asset.parents[imp.rootMesh] = Null
                 /\ imp.metadata = [type |-> "import", lines |-> <<>>]
    /\ \A j, k \in Imports :
          (j # k /\ imports[j].pc = "done" /\ imports[k].pc = "done")
          => ImportIds(imports[j]) \cap ImportIds(imports[k]) = {}

\* the same file imported twice, both imports finished, in a scene whose
\* meshes and line have the names the file gives its objects
C16_Witness ==
    /\ \A k \in Imports : imports[k].pc = "done"
    /\ \A j, k \in Imports : imports[j].asset = imports[k].asset
    /\ \E k \in Imports :
          Range(imports[k].asset.meshes) \cup Range(imports[k].asset.transformNodes)
             \subseteq {NameOfMesh(m) : m \in sceneMeshes}
    /\ sceneLines # {}

\* ------------------------------------------------------ claims about root
\* the nodes met when following parent from the nodes of S for n steps
RECURSIVE Reach(_, _)
Reach(S, n) ==
    IF n = 0 THEN S
    ELSE Reach(S \cup ({parent[a] : a \in S} \ {Null}), n - 1)

Chain(mesh) == Reach({mesh}, MaxNodes)

\* the parent chain of mesh never reaches a node without a parent
Cyclic(mesh) == \A a \in Chain(mesh) : parent[a] # Null

\* C17: for every mesh whose parent chain loops, root ends with CycleError.
C17_CycleRejected ==
    (rootCall.mesh # Null /\ Cyclic(rootCall.mesh))
    => rootCall.err = "CycleError"

\* C18: for every mesh whose parent chain has no cycle, root returns, what
\* it returns is the one parentless node of the chain (the mesh itself when
\* it has no parent; the same node for every node of the chain), and no
\* state changes.
C18_Step ==
    (rootCall' # rootCall /\ ~Cyclic(rootCall'.mesh))
    => LET p == rootCall'.mesh
           r == rootCall'.result
       IN  /\ rootCall'.err = ""
           /\ r \in Chain(p)
           /\ {a \in Chain(p) : parent[a] = Null} = {r}
           /\ parent[p] = Null => r = p
           /\ \A q \in Chain(p) : root(parent, q, MaxStack).mesh = r
           /\ parent' = parent
           /\ UNCHANGED <<sceneVars, importVars>>

C18_RootResolution == [][C18_Step]_vars

\* root(A) has returned C for a chain A -> B -> C with C parentless
C18_Witness ==
    /\ rootCall.err = ""
    /\ \E A, B, C \in Nodes :
          /\ A # B /\ B # C /\ A # C
          /\ parent[A] = B /\ parent[B] = C /\ parent[C] = Null
          /\ rootCall.mesh = A
          /\ rootCall.result = C

====
